---- MODULE Spec2Model ----
(***************************************************************************)
(* A model of imagery/__init__.py: the Dataset / Band wrappers around a    *)
(* GDAL raster, the pixel <-> map coordinate conversions of RasterProxy,   *)
(* no-data masking in Band.get_array, Dataset.profile and Band.extract.    *)
(*                                                                         *)
(* Three specifications share the variables:                               *)
(*   SpecCoord  the coordinate conversions applied to a geometry           *)
(*   SpecArray  get_array and profile applied to a raster with content     *)
(*   Spec       the life of a Dataset, its Bands and its raster handle     *)
(*                                                                         *)
(* Numbers: the module has `from __future__ import division`, so "/" is    *)
(* true division.  Coordinates and means are modelled as exact rationals   *)
(* <<n, d>> in lowest terms with d > 0; floating-point rounding is not     *)
(* modelled (the claims are stated up to tolerance).                       *)
(***************************************************************************)
EXTENDS Integers, Sequences, FiniteSets, TLC

VARIABLES
    \* SpecCoord
    g,        \* the geotransform GetGeoTransform() returns, <<g0,..,g5>>
    geom0,    \* the geometry the caller started from
    geom,     \* the geometry after the conversions applied so far
    trail,    \* the conversions applied so far, in order
    \* SpecArray
    rfile,    \* the raster: shape, band count, pixel type, no-data, pixels
    call,     \* the last call and its arguments
    ret,      \* what the last call returned or raised
    \* Spec
    file,     \* the image file behind the filename
    ds,       \* the Dataset object
    bands,    \* the Band objects get_band has created
    ctx,      \* the position in a `with open(filename)` block
    last      \* the last operation, its outcome and the errors it caught

coordVars == <<g, geom0, geom, trail>>
arrayVars == <<rfile, call, ret>>
lifeVars  == <<file, ds, bands, ctx, last>>
vars == <<g, geom0, geom, trail, rfile, call, ret, file, ds, bands, ctx, last>>

-----------------------------------------------------------------------------
(* Exact rational arithmetic.                                              *)

Abs(n) == IF n < 0 THEN -n ELSE n

RECURSIVE Gcd(_, _)
Gcd(a, b) == IF b = 0 THEN a ELSE Gcd(b, a % b)

Rat(n, d) ==
    LET s == IF d < 0 THEN -1 ELSE 1
        k == Gcd(Abs(n), Abs(d))
    IN  <<(s * n) \div k, (s * d) \div k>>

Int2Rat(n) == <<n, 1>>
RAdd(a, b) == Rat(a[1] * b[2] + b[1] * a[2], a[2] * b[2])
RSub(a, b) == Rat(a[1] * b[2] - b[1] * a[2], a[2] * b[2])
RMul(a, b) == Rat(a[1] * b[1], a[2] * b[2])
RDiv(a, b) == Rat(a[1] * b[2], a[2] * b[1])
RIsZero(a) == a[1] = 0

\* int(i): truncation toward zero
Trunc(a) == IF a[1] < 0 THEN Int2Rat(-((-a[1]) \div a[2])) ELSE Int2Rat(a[1] \div a[2])

-----------------------------------------------------------------------------
(* RasterProxy: coordinate conversions.                                    *)
(* A geometry is a sequence of vertices; a vertex is <<x, y>> or           *)
(* <<x, y, z>>.  shapely's transform applies project_coord to each vertex. *)

MaxCoord == 2
MaxVerts == 2

G0Set == {0, 10}
G1Set == {0, 2}
G2Set == {0, 1}
G3Set == {20}
G4Set == {0, 1}
G5Set == {-2, 0, 1}
GeoTransforms == G0Set \X G1Set \X G2Set \X G3Set \X G4Set \X G5Set

ZSet == {5}
Vertices ==
    { <<Int2Rat(x), Int2Rat(y)>> : x \in 0..MaxCoord, y \in 0..MaxCoord }
    \cup { <<Int2Rat(x), Int2Rat(y), Int2Rat(z)>> :
             x \in 0..MaxCoord, y \in {0, MaxCoord}, z \in ZSet }
Vertices2 == { <<Int2Rat(x), Int2Rat(y)>> : x \in {0, MaxCoord}, y \in {1} }
Geometries ==
    { <<v>> : v \in Vertices }
    \cup { <<v, w>> : v \in Vertices, w \in IF MaxVerts >= 2 THEN Vertices2 ELSE {} }

geomatrix(gt) == [i \in 0..5 |-> Int2Rat(gt[i + 1])]

\* x/g[1] or y/g[5] with a zero divisor raises ZeroDivisionError
ZeroDivision(gt) == gt[2] = 0 \/ gt[6] = 0

\* project_coord of pixel_coordinates, for non-zero g[1] and g[5]
pixel_project_coord(gt, v, snap) ==
    LET gm == geomatrix(gt)
        x0 == RDiv(RSub(v[1], gm[0]), gm[1])
        y0 == RDiv(RSub(v[2], gm[3]), gm[5])
        x  == IF snap THEN Trunc(x0) ELSE x0
        y  == IF snap THEN Trunc(y0) ELSE y0
    IN  IF Len(v) = 2 THEN <<x, y>> ELSE <<x, y, v[3]>>

\* project_coord of map_coordinates: x is reassigned before y is computed
map_project_coord(gt, v) ==
    LET gm == geomatrix(gt)
        x  == RAdd(RAdd(gm[0], RMul(gm[1], v[1])), RMul(gm[2], v[2]))
        y  == RAdd(RAdd(gm[3], RMul(gm[4], x)), RMul(gm[5], v[2]))
    IN  IF Len(v) = 2 THEN <<x, y>> ELSE <<x, y, v[3]>>

\* shapely.ops.transform: the function applied to every vertex; an error in
\* any vertex is the error of the call
transformOk(ge) == ge.err = "None"
Geom(verts) == [err |-> "None", verts |-> verts]
GeomError(e) == [err |-> e, verts |-> <<>>]

pixel_coordinates(gt, ge, snap) ==
    IF Len(ge.verts) > 0 /\ ZeroDivision(gt)
    THEN GeomError("ZeroDivisionError")
    ELSE Geom([i \in 1..Len(ge.verts) |-> pixel_project_coord(gt, ge.verts[i], snap)])

map_coordinates(gt, ge) ==
    Geom([i \in 1..Len(ge.verts) |-> map_project_coord(gt, ge.verts[i])])

MaxTrail == 2

CoordIdle ==
    /\ rfile = "unused" /\ call = "unused" /\ ret = "unused"
    /\ file = "unused" /\ ds = "unused" /\ bands = {} /\ ctx = "unused" /\ last = "unused"

InitCoord ==
    /\ g \in GeoTransforms
    /\ geom0 \in { Geom(v) : v \in Geometries }
    /\ geom = geom0
    /\ trail = <<>>
    /\ CoordIdle

MapCoordinates ==
    /\ Len(trail) < MaxTrail
    /\ transformOk(geom)
    /\ geom' = map_coordinates(g, geom)
    /\ trail' = Append(trail, "map")
    /\ UNCHANGED <<g, geom0>>
    /\ UNCHANGED arrayVars /\ UNCHANGED lifeVars

PixelCoordinates ==
    /\ Len(trail) < MaxTrail
    /\ transformOk(geom)
    /\ \E snap \in BOOLEAN :
         /\ geom' = pixel_coordinates(g, geom, snap)
         /\ trail' = Append(trail, IF snap THEN "pixel_snap" ELSE "pixel")
    /\ UNCHANGED <<g, geom0>>
    /\ UNCHANGED arrayVars /\ UNCHANGED lifeVars

NextCoord == MapCoordinates \/ PixelCoordinates

SpecCoord == InitCoord /\ [][NextCoord]_vars

\* the six-coefficient affine map of the geotransform, on a vertex
Affine(gt, v) ==
    LET gm == geomatrix(gt)
        x  == RAdd(RAdd(gm[0], RMul(gm[1], v[1])), RMul(gm[2], v[2]))
        y  == RAdd(RAdd(gm[3], RMul(gm[4], v[1])), RMul(gm[5], v[2]))
    IN  IF Len(v) = 2 THEN <<x, y>> ELSE <<x, y, v[3]>>

Invertible(gt) == gt[2] * gt[6] - gt[3] * gt[5] # 0

\* C1: for every geotransform with invertible linear part and every pixel
\* geometry, map_coordinates followed by pixel_coordinates (snap=False)
\* returns the original vertices.
C1_RoundTrip ==
    (trail = <<"map", "pixel">> /\ Invertible(g))
        => (transformOk(geom) /\ geom.verts = geom0.verts)

\* C2: map_coordinates sends every vertex (x, y[, z]) to
\* (g0 + g1*x + g2*y, g3 + g4*x + g5*y[, z]) with the original x and y.
C2_MapClosedForm ==
    (trail = <<"map">>)
        => (/\ transformOk(geom)
            /\ Len(geom.verts) = Len(geom0.verts)
            /\ \A i \in 1..Len(geom0.verts) : geom.verts[i] = Affine(g, geom0.verts[i]))

\* C3: pixel_coordinates (snap=False) inverts the affine map: the pixel
\* vertex it returns is sent back to the map vertex by the six-coefficient
\* map, for every geotransform with invertible linear part.
C3_PixelInverse ==
    (trail = <<"pixel">> /\ Invertible(g))
        => (/\ transformOk(geom)
            /\ Len(geom.verts) = Len(geom0.verts)
            /\ \A i \in 1..Len(geom0.verts) : Affine(g, geom.verts[i]) = geom0.verts[i])

-----------------------------------------------------------------------------
(* Pixel values and arrays.                                                *)
(* A pixel value is <<v>> (the number v) or <<>> (NaN); NaN equals         *)
(* nothing, itself included.  An array is a sequence of rows.              *)

Num(v) == <<v>>
NaN == <<>>
IsNaN(a) == a = NaN
ValEq(a, b) == ~IsNaN(a) /\ ~IsNaN(b) /\ a = b

\* a no-data argument: None, the string 'nan', or a number
None == [t |-> "None", v |-> 0]
StrNan == [t |-> "str", v |-> 0]
Number(n) == [t |-> "num", v |-> n]

IntTypes == {"Int16"}
FloatTypes == {"Float32"}

Shape(arr) == <<Len(arr), Len(arr[1])>>

NoArray == <<>>
Ret(err, caught, kind, data, mask, vals) ==
    [err |-> err, caught |-> caught, kind |-> kind, data |-> data, mask |-> mask, vals |-> vals]
Raise(e) == Ret(e, "None", "None", NoArray, NoArray, <<>>)

\* arr[arr == nodata] = N.nan: an integer array cannot hold NaN
MaskByValue(arr, dtype, nodata) ==
    IF dtype \in IntTypes
    THEN Ret("None", "ValueError", "ndarray", arr, NoArray, <<>>)
    ELSE Ret("None", "None", "ndarray",
             [r \in 1..Len(arr) |-> [c \in 1..Len(arr[r]) |->
                 IF ValEq(arr[r][c], Num(nodata.v)) THEN NaN ELSE arr[r][c]]],
             NoArray, <<>>)

\* Band.get_array on the array ReadAsArray returned
get_array(arr, dtype, selfNodata, arg) ==
    LET nodata == IF arg = None THEN selfNodata ELSE arg IN
    IF nodata = StrNan
    THEN Ret("None", "None", "masked", arr,
             [r \in 1..Len(arr) |-> [c \in 1..Len(arr[r]) |-> IsNaN(arr[r][c])]], <<>>)
    ELSE IF nodata # None
    THEN MaskByValue(arr, dtype, nodata)
    ELSE Ret("None", "None", "ndarray", arr, NoArray, <<>>)

-----------------------------------------------------------------------------
(* Dataset.profile.                                                        *)

RECURSIVE RSum(_)
RSum(s) == IF s = <<>> THEN Int2Rat(0) ELSE RAdd(Head(s), RSum(Tail(s)))

Masked == <<0, 0, 0>>
ToRat(a) == IF IsNaN(a) THEN NaN ELSE Int2Rat(a[1])

\* the mean of a masked array along one axis: sum / count over the entries
\* not masked.  numpy.ma's division masks every quotient that is not finite,
\* so the result is masked when no entry is kept (0/0) and also when a kept
\* entry is NaN (NaN/count)
MaskedMean(vals, mask) ==
    LET idx  == { i \in 1..Len(vals) : ~mask[i] }
        seq  == [i \in 1..Len(vals) |-> IF mask[i] THEN Int2Rat(0) ELSE vals[i]]
    IN  IF idx = {} THEN Masked
        ELSE IF \E i \in idx : IsNaN(vals[i]) THEN Masked
        ELSE RDiv(RSum(seq), Int2Rat(Cardinality(idx)))

Range(n) == [i \in 1..n |-> i - 1]
NoBands == [none |-> TRUE, list |-> <<>>]
BandList(l) == [none |-> FALSE, list |-> l]

WindowOffset(x, window) == x - (1 \div window)

\* ReadRaster(xoff, yoff, w, w, band_list): the window of every listed band,
\* band after band, each row after row
WindowFits(rf, xoff, yoff, w) ==
    /\ xoff >= 0 /\ yoff >= 0
    /\ xoff + w <= rf.xsize /\ yoff + w <= rf.ysize
ReadRaster(rf, xoff, yoff, w, band_list) ==
    [k \in 1..Len(band_list) |-> [r \in 1..w |-> [c \in 1..w |->
        rf.pix[band_list[k] - 1][yoff + r][xoff + c]]]]

\* arr.mean(axis=1).mean(axis=1), filled with NaN, on the masked cube
ProfileMeans(cube, nodata0) ==
    [k \in 1..Len(cube) |->
        LET w    == Len(cube[k])
            m    == [r \in 1..w |-> [c \in 1..w |->
                        nodata0 # None /\ ValEq(cube[k][r][c], Num(nodata0.v))]]
            col  == [c \in 1..w |->
                        MaskedMean([r \in 1..w |-> ToRat(cube[k][r][c])],
                                   [r \in 1..w |-> m[r][c]])]
            tot  == MaskedMean(col, [c \in 1..w |-> col[c] = Masked])
        IN  IF tot = Masked THEN NaN ELSE tot]

profile(rf, x, y, bandsArg, window) ==
    LET bnds      == IF bandsArg.none THEN Range(rf.count) ELSE bandsArg.list
        band_list == [k \in 1..Len(bnds) |-> bnds[k] + 1]
        xoff      == WindowOffset(x, window)
        yoff      == WindowOffset(y, window)
    IN  IF ~WindowFits(rf, xoff, yoff, window)
           \/ \E k \in 1..Len(band_list) : band_list[k] \notin 1..rf.count
        THEN Raise("RuntimeError")
        ELSE IF Len(band_list) # rf.count
        THEN Raise("ValueError")   \* reshape((len(self), window, window))
        ELSE Ret("None", "None", "list", NoArray, NoArray,
                 ProfileMeans(ReadRaster(rf, xoff, yoff, window, band_list), rf.nodata[0]))

-----------------------------------------------------------------------------
(* SpecArray: get_array and profile applied to a raster.                   *)

MaxSize == 2
BandCounts == {1, 2}
DataTypes == IntTypes \cup FloatTypes
DeclaredNoData == {None, Number(0)}
NoDataArgs == {None, StrNan, Number(0), Number(1)}

\* pixel values: band 0 holds 0, 1, 3 (and NaN in a float raster), the
\* other bands 0 and 1
PixelValues(dtype, b) ==
    IF b = 0
    THEN {Num(0), Num(1), Num(3)} \cup (IF dtype \in FloatTypes THEN {NaN} ELSE {})
    ELSE {Num(0), Num(1)}

Arrays(ysize, xsize, vals) == [1..ysize -> [1..xsize -> vals]]

\* the rasters of width `size` and height 1 or `size`
Rasters(size) ==
    UNION { UNION { UNION {
        [ysize: {ysize}, xsize: {size}, count: {n}, dtype: {dtype},
         nodata: [0..n-1 -> DeclaredNoData],
         pix: { p \in [0..n-1 -> Arrays(ysize, size, PixelValues(dtype, 0))] :
                  \A b \in 1..n-1 : \A r \in 1..ysize : \A c \in 1..size :
                      p[b][r][c] \in PixelValues(dtype, b) }]
        : ysize \in {1, size} } : n \in BandCounts } : dtype \in DataTypes }

ProfileBands == {NoBands, BandList(<<0>>), BandList(<<1>>), BandList(<<0, 1>>), BandList(<<1, 0>>)}
Windows == 1..MaxSize

ArrayIdle ==
    /\ g = <<>> /\ geom0 = "unused" /\ geom = "unused" /\ trail = <<>>
    /\ file = "unused" /\ ds = "unused" /\ bands = {} /\ ctx = "unused" /\ last = "unused"

NoCall == [op |-> "None", band |-> 0, nodata |-> None, x |-> 0, y |-> 0,
           bands |-> NoBands, window |-> 0]

InitArray ==
    /\ rfile \in Rasters(MaxSize)
    /\ call = NoCall
    /\ ret = Raise("None")
    /\ ArrayIdle

\* Band(dataset, b).get_array(nodata)
GetArrayCall ==
    /\ call.op = "None"
    /\ \E b \in 0..rfile.count-1, arg \in NoDataArgs :
         /\ call' = [NoCall EXCEPT !.op = "get_array", !.band = b, !.nodata = arg]
         /\ ret' = get_array(rfile.pix[b], rfile.dtype, rfile.nodata[b], arg)
    /\ UNCHANGED rfile
    /\ UNCHANGED coordVars /\ UNCHANGED lifeVars

\* dataset.profile(x, y, bands, window)
ProfileCall ==
    /\ call.op = "None"
    /\ \E x \in 0..1, y \in 0..1, bs \in ProfileBands, w \in Windows :
         /\ call' = [NoCall EXCEPT !.op = "profile", !.x = x, !.y = y, !.bands = bs, !.window = w]
         /\ ret' = profile(rfile, x, y, bs, w)
    /\ UNCHANGED rfile
    /\ UNCHANGED coordVars /\ UNCHANGED lifeVars

NextArray == GetArrayCall \/ ProfileCall

SpecArray == InitArray /\ [][NextArray]_vars

\* the no-data value get_array uses: the argument, else the band's own
EffectiveNoData(c) == IF c.nodata = None THEN rfile.nodata[c.band] ELSE c.nodata

IsNoData(a, nodata) ==
    IF nodata = StrNan THEN IsNaN(a) ELSE nodata # None /\ ValEq(a, Num(nodata.v))

\* the element at (r, c) of a returned array is the sentinel: masked, or NaN
IsSentinel(res, r, c) ==
    \/ res.kind = "masked" /\ res.mask[r][c]
    \/ res.kind = "ndarray" /\ IsNaN(res.data[r][c])

IsValid(res, r, c) == ~(res.kind = "masked" /\ res.mask[r][c])

\* C4: whenever the effective no-data value of get_array is not None, every
\* element of the band equal to it is returned as the sentinel (NaN or
\* masked), whatever the pixel type, and every other element is returned
\* unchanged.
C4_MaskingConsistent ==
    (call.op = "get_array" /\ EffectiveNoData(call) # None)
        => LET raw == rfile.pix[call.band] IN
           /\ ret.err = "None"
           /\ Shape(ret.data) = Shape(raw)
           /\ \A r \in 1..Len(raw) : \A c \in 1..Len(raw[r]) :
                IF IsNoData(raw[r][c], EffectiveNoData(call))
                THEN IsSentinel(ret, r, c)
                ELSE IsValid(ret, r, c) /\ ret.data[r][c] = raw[r][c]

\* the mean of the pixels of band b in the window that are not the band's
\* no-data value; NaN when there is none
WindowCells(xoff, yoff, w) == { <<yoff + r, xoff + c>> : r \in 1..w, c \in 1..w }

RECURSIVE SumCells(_, _)
SumCells(arr, cells) ==
    IF cells = {} THEN Int2Rat(0)
    ELSE LET p == CHOOSE q \in cells : TRUE
         IN  RAdd(ToRat(arr[p[1]][p[2]]), SumCells(arr, cells \ {p}))

WindowMean(rf, b, xoff, yoff, w) ==
    LET arr  == rf.pix[b]
        kept == { p \in WindowCells(xoff, yoff, w) :
                    ~IsNoData(arr[p[1]][p[2]], rf.nodata[b]) }
    IN  IF kept = {} THEN NaN
        ELSE IF \E p \in kept : IsNaN(arr[p[1]][p[2]]) THEN NaN
        ELSE RDiv(SumCells(arr, kept), Int2Rat(Cardinality(kept)))

ValidBands(rf, bs) ==
    bs.none \/ (Len(bs.list) > 0 /\ \A k \in 1..Len(bs.list) : bs.list[k] \in 0..rf.count-1)

\* C9: profile(x, y, bands=B, window=w) returns one value per band of B, in
\* the order of B (one per band of the dataset when bands is None), the k-th
\* being the mean of the non-no-data pixels of band B[k] in the window read,
\* NaN when the whole window is no-data.
C9_ProfileMeans ==
    (/\ call.op = "profile"
     /\ ValidBands(rfile, call.bands)
     /\ WindowFits(rfile, WindowOffset(call.x, call.window),
                   WindowOffset(call.y, call.window), call.window))
        => LET B == IF call.bands.none THEN Range(rfile.count) ELSE call.bands.list IN
           /\ ret.err = "None"
           /\ Len(ret.vals) = Len(B)
           /\ \A k \in 1..Len(B) :
                ret.vals[k] = WindowMean(rfile, B[k], WindowOffset(call.x, call.window),
                                         WindowOffset(call.y, call.window), call.window)

-----------------------------------------------------------------------------
(* Spec: the life of a Dataset, its Bands and its raster handle.           *)

MaxDim == 2
MaxCount == 2

\* the image files a filename may name; an unreadable one makes G.Open raise
\* (G.UseExceptions() is on); a file without projection metadata has an
\* empty WKT and no geographic coordinate system; every pixel holds `fill`
BadFile == [ok |-> FALSE, ysize |-> 0, xsize |-> 0, count |-> 0, dtype |-> "None",
            nodata |-> None, projection |-> "None", geo |-> "None", fill |-> 0]
Files ==
    [ok: {TRUE}, ysize: 1..MaxDim, xsize: 1..MaxDim, count: 1..MaxCount,
     dtype: DataTypes, nodata: DeclaredNoData, projection: {"present", "missing"},
     geo: {"regular", "zero_scale"}, fill: {0}]
    \cup {BadFile}

Strategies == {"nearest", "custom"}
GeometryKinds == {"point", "line", "polygon"}
BlockErrors == {"KeyError", "RuntimeError"}

NoDataset == [state |-> "none", gdal |-> "None", shape |-> <<>>, attrs |-> {},
              projected |-> "unset"]

Outcome(op) ==
    [op |-> op, band |-> 0, err |-> "None", caught |-> "None", raised |-> "None",
     shape |-> <<>>, passed |-> "None", applied |-> "None", route |-> "None",
     areaBands |-> <<>>, mapped |-> FALSE, geometry |-> "None"]

DatasetShapeSwapped(f) == <<f.xsize, f.ysize>>

\* Dataset.__init__: self.shape
DatasetShape(f) == <<f.ysize, f.xsize>>

\* a constructor without the except clause
DatasetInitNoCatch(f) ==
    IF ~f.ok
    THEN [err |-> "RuntimeError", caught |-> "None", ds |-> NoDataset]
    ELSE IF f.projection = "missing"
    THEN [err |-> "AttributeError", caught |-> "None", ds |-> NoDataset]
    ELSE [err |-> "None", caught |-> "None",
          ds |-> [state |-> "live", gdal |-> "handle", shape |-> DatasetShape(f),
                  attrs |-> {"wkt", "osr", "crs", "gcs"}, projected |-> TRUE]]

\* Dataset.__init__: [err, caught, ds].  CloneGeogCS() returns None for a
\* raster without projection metadata, so the ExportToProj4 call on it raises
\* AttributeError after wkt and crs were assigned.
DatasetInit(f) ==
    IF ~f.ok
    THEN [err |-> "RuntimeError", caught |-> "None", ds |-> NoDataset]
    ELSE IF f.projection = "missing"
    THEN [err |-> "None", caught |-> "AttributeError",
          ds |-> [state |-> "live", gdal |-> "handle", shape |-> DatasetShape(f),
                  attrs |-> {"wkt", "osr", "crs"}, projected |-> FALSE]]
    ELSE [err |-> "None", caught |-> "None",
          ds |-> [state |-> "live", gdal |-> "handle", shape |-> DatasetShape(f),
                  attrs |-> {"wkt", "osr", "crs", "gcs"}, projected |-> TRUE]]

close_keeps_handle(d) == d

\* Dataset.close
close(d) == [d EXCEPT !.gdal = "None"]

\* Band.__init__ on a dataset whose handle is held and an index in range
BandInit(d, f, index) ==
    [index |-> index, shape |-> d.shape, nodata |-> f.nodata,
     gdal |-> [YSize |-> f.ysize, XSize |-> f.xsize, DataType |-> f.dtype]]

\* Band.__len__
band_len(b) == b.gdal.YSize

\* ReadAsArray() of a band: YSize rows of XSize pixels
ReadAsArray(b, f) == [r \in 1..b.gdal.YSize |-> [c \in 1..b.gdal.XSize |-> Num(f.fill)]]

\* the strategy extract hands on to extract_pixels: none, so its default
ExtractStrategy(strategy) == "nearest"

LifeIdle ==
    /\ g = <<>> /\ geom0 = "unused" /\ geom = "unused" /\ trail = <<>>
    /\ rfile = "unused" /\ call = "unused" /\ ret = "unused"

Init ==
    /\ file \in Files
    /\ ds = NoDataset
    /\ bands = {}
    /\ ctx = "none"
    /\ last = Outcome("None")
    /\ LifeIdle

Alive == last.err # "crash"
Live == ds.state = "live"

\* image = Dataset(filename)
NewDataset ==
    /\ Alive /\ ds.state = "none" /\ ctx = "none"
    /\ LET r == DatasetInit(file) IN
         /\ ds' = r.ds
         /\ last' = [Outcome("Dataset") EXCEPT !.err = r.err, !.caught = r.caught]
    /\ UNCHANGED <<file, bands, ctx>>
    /\ UNCHANGED coordVars /\ UNCHANGED arrayVars

\* with open(filename) as image: open.__init__ and __enter__
WithOpen ==
    /\ Alive /\ ds.state = "none" /\ ctx = "none"
    /\ LET r == DatasetInit(file) IN
         /\ ds' = r.ds
         /\ ctx' = IF r.err = "None" THEN "block" ELSE "none"
         /\ last' = [Outcome("open") EXCEPT !.err = r.err, !.caught = r.caught]
    /\ UNCHANGED <<file, bands>>
    /\ UNCHANGED coordVars /\ UNCHANGED arrayVars

\* the block ends, normally or with an exception e: open.__exit__ closes the
\* image and returns None, so e goes on to the caller
WithExit ==
    /\ Alive /\ ctx = "block"
    /\ \E e \in BlockErrors \cup {"None"} :
         /\ ds' = close(ds)
         /\ ctx' = "left"
         /\ last' = [Outcome("__exit__") EXCEPT !.raised = e, !.err = e]
    /\ UNCHANGED <<file, bands>>
    /\ UNCHANGED coordVars /\ UNCHANGED arrayVars

\* image.close()
Close ==
    /\ Alive /\ Live
    /\ ds' = close(ds)
    /\ last' = Outcome("close")
    /\ UNCHANGED <<file, bands, ctx>>
    /\ UNCHANGED coordVars /\ UNCHANGED arrayVars

\* image.get_band(index)
GetBand ==
    /\ Alive /\ Live
    /\ \E index \in 0..MaxCount :
         IF ds.gdal = "None"
         THEN /\ last' = [Outcome("get_band") EXCEPT !.band = index, !.err = "AttributeError"]
              /\ UNCHANGED bands
         ELSE IF index >= file.count
         THEN /\ last' = [Outcome("get_band") EXCEPT !.band = index, !.err = "RuntimeError"]
              /\ UNCHANGED bands
         ELSE /\ bands' = bands \cup {BandInit(ds, file, index)}
              /\ last' = [Outcome("get_band") EXCEPT !.band = index]
    /\ UNCHANGED <<file, ds, ctx>>
    /\ UNCHANGED coordVars /\ UNCHANGED arrayVars

\* band.get_array(nodata).  The band keeps its own GDAL band object; once the
\* dataset's handle is dropped that object may dangle, and reading through
\* it either still works or ends the process.
BandGetArray ==
    /\ Alive
    /\ \E b \in bands, arg \in NoDataArgs, works \in BOOLEAN :
         /\ works \/ ds.gdal = "None"
         /\ IF ~works
            THEN last' = [Outcome("get_array") EXCEPT !.band = b.index, !.err = "crash"]
            ELSE LET r == get_array(ReadAsArray(b, file), b.gdal.DataType, b.nodata, arg) IN
                 last' = [Outcome("get_array") EXCEPT !.band = b.index, !.err = r.err,
                            !.caught = r.caught, !.shape = Shape(r.data)]
    /\ UNCHANGED <<file, ds, bands, ctx>>
    /\ UNCHANGED coordVars /\ UNCHANGED arrayVars

\* band.extract(geometry, strategy): pixel_coordinates, extract_pixels,
\* map_coordinates
BandExtract ==
    /\ Alive
    /\ \E b \in bands, kind \in GeometryKinds, strategy \in Strategies :
         LET o == [Outcome("extract") EXCEPT !.band = b.index, !.passed = strategy,
                                              !.geometry = kind] IN
            IF ds.gdal = "None"
            THEN last' = [o EXCEPT !.err = "AttributeError"]       \* geomatrix
            ELSE IF file.geo = "zero_scale"
            THEN last' = [o EXCEPT !.err = "ZeroDivisionError"]    \* pixel_coordinates
            ELSE IF kind \in {"point", "line"}                     \* area == 0
            THEN LET r == get_array(ReadAsArray(b, file), b.gdal.DataType, b.nodata, None) IN
                 last' = [o EXCEPT !.caught = r.caught, !.route = "strategy",
                            !.applied = ExtractStrategy(strategy), !.mapped = TRUE]
            ELSE last' = [o EXCEPT !.route = "area", !.areaBands = <<b.index>>,
                            !.mapped = TRUE]
    /\ UNCHANGED <<file, ds, bands, ctx>>
    /\ UNCHANGED coordVars /\ UNCHANGED arrayVars

Next ==
    \/ NewDataset \/ WithOpen \/ WithExit \/ Close
    \/ GetBand \/ BandGetArray \/ BandExtract

Spec == Init /\ [][Next]_vars

-----------------------------------------------------------------------------
(* Claims checked under Spec.                                              *)

RasterShape == <<file.ysize, file.xsize>>

\* C5: in every state reached by opening a dataset and calling get_band any
\* number of times, each band's shape equals its dataset's shape, which is
\* (RasterYSize, RasterXSize); len(band) is shape[0], and an array get_array
\* returns has the band's shape.
C5_ShapeInvariant ==
    /\ Live => ds.shape = RasterShape
    /\ \A b \in bands :
         /\ b.shape = ds.shape
         /\ b.shape = RasterShape
         /\ band_len(b) = b.shape[1]
         /\ (last.op = "get_array" /\ last.err = "None" /\ last.band = b.index)
               => last.shape = b.shape

C5_Witness ==
    \E b \in bands :
        /\ b.shape[1] # b.shape[2]
        /\ Cardinality(bands) > 1
        /\ last.op = "get_array" /\ last.err = "None" /\ last.band = b.index
        /\ last.shape = b.shape

Released == Live /\ ds.gdal = "None"

\* C6: the dataset holds its handle from construction until close is called
\* and not after: a constructed dataset holds it; only close (directly or
\* through __exit__, with or without an exception) drops it; after close or
\* __exit__ the handle is released and stays released in every later state;
\* a repeated close raises nothing; an exception raised in the block reaches
\* the caller.
C6_HandleLifecycle ==
    [][/\ Released => Released'
       /\ (ds.gdal = "handle" /\ ds'.gdal # "handle")
             => last'.op \in {"close", "__exit__"}
       /\ (last'.op \in {"Dataset", "open"} /\ last'.err = "None") => ds'.gdal = "handle"
       /\ last'.op \in {"close", "__exit__"} => Released'
       /\ last'.op = "close" => last'.err = "None"
       /\ last'.op = "__exit__" => last'.err = last'.raised]_vars

C6_Witness ==
    /\ last.op = "__exit__" /\ last.raised \in BlockErrors /\ last.err = last.raised
    /\ Released /\ ctx = "left"

\* C7: a constructed Dataset has a boolean `projected`; with the projection
\* metadata missing the constructor raises nothing and sets projected to
\* False; projected is True only when wkt, crs and gcs have been set.
C7_ProjectionFlag ==
    /\ Live => ds.projected \in BOOLEAN
    /\ (last.op \in {"Dataset", "open"} /\ file.ok /\ file.projection = "missing")
          => (last.err = "None" /\ Live /\ ds.projected = FALSE)
    /\ (Live /\ ds.projected = TRUE) => {"wkt", "crs", "gcs"} \subseteq ds.attrs

C7_Witness ==
    /\ last.op = "Dataset" /\ last.err = "None" /\ last.caught = "AttributeError"
    /\ file.projection = "missing"
    /\ Live /\ ds.projected = FALSE /\ "gcs" \notin ds.attrs

\* C8: apart from the missing-projection case of Dataset construction, no
\* operation catches an error and returns normally in its place.
C8_ErrorsPropagate ==
    last.caught # "None"
        => (/\ last.op \in {"Dataset", "open"}
            /\ last.caught = "AttributeError"
            /\ file.projection = "missing")

\* C10: extract(geometry, strategy=S) applies exactly S to the band's array
\* when the pixel geometry has zero area, uses extract_area with this band's
\* index when it has not, and converts the result back to map coordinates.
C10_ExtractDispatch ==
    (last.op = "extract" /\ last.err = "None")
        => (/\ last.mapped
            /\ IF last.geometry \in {"point", "line"}
               THEN last.route = "strategy" /\ last.applied = last.passed
               ELSE last.route = "area" /\ last.areaBands = <<last.band>>)

====
